---------------------------- MODULE Spec2Model ----------------------------
(***************************************************************************)
(* Model of one runner ModelInstance (api/pkg/runner/model_instance.go):   *)
(* its three session slots, the prefetch done by queueSession, the         *)
(* next-task pop that calls assignSessionTask, the two text-stream         *)
(* goroutines that call taskResponseHandler, and the Wait goroutine of     *)
(* startProcess.                                                           *)
(*                                                                         *)
(* The instance takes no lock.  The steps of a goroutine are cut where     *)
(* the source blocks on I/O (downloadSession, uploadWorkerResponse,        *)
(* cmd.Wait, the responseHandler call) and between a nil test of           *)
(* instance.currentSession and the next read of it; adjacent assignments   *)
(* in between are one step.  A nil slot read after a passed nil test is a  *)
(* nil dereference, which ends the runner process (panicked).              *)
(*                                                                         *)
(* Sessions are numbered 1..MaxSessions in the order the supervisor hands  *)
(* them to the instance; a session is handed to the instance once.  The    *)
(* child runs one task at a time: it polls the next-task URL, emits at     *)
(* most MaxEmit stream or progress responses in its life and one result    *)
(* per task, and may exit at any moment.                                   *)
(*                                                                         *)
(* The control plane (session queue, global scheduler) and the runner      *)
(* supervisor are modelled beside the instance: the queue kept in          *)
(* comparator order, the filter predicate, the two-phase poll under the    *)
(* queue mutex and the supervisor's hand-off of the returned session.      *)
(* SpecScheduler runs them with two polling runners, SpecMatch applies     *)
(* match to every queue and filter, SpecPeek adds the initial-session peek *)
(* and the clock to the instance.                                          *)
(***************************************************************************)
EXTENDS Integers, Sequences, FiniteSets, TLC

\* ---------------------------------------------------------------- bounds
MaxSessions == 2

MaxEmit == 1

MaxTime == 1

\* sessions enqueued in one behaviour
MaxQueued == 2

\* the largest memory requirement a model registers
MaxRequirement == 2

\* the total memory of a runner, in units of the smallest model footprint
TotalMemory == 3

\* ------------------------------------------------------------- constants
\* a nil *types.Session
NoSession == 0

Sessions == 1 .. MaxSessions

\* Session.Owner of session s, and the zero value of the Owner field
OwnerOf(s) == 100 + s

NoOwner == 0

\* the zero value of RunnerTaskResponse.Error
NoError == ""

\* err.Error() of the error downloadSession returned
downloadSessionErr == "error preparing session"

\* stopProcess was not called
NotStopped == "not called"

\* the error stopProcess returns when the instance has no command
noProcessErr == "no process to stop"

\* the error of syscall.Kill for a process group that is gone
killErr == "no such process"

\* err.Error() of the *exec.ExitError cmd.Wait returned
cmdWaitErr == "exit status 1"

\* what stderrBuf retains: the last 10 KiB the child wrote to stderr
stderrBuf == "stderr tail"

\* the two text streams returned by model.GetTextStreams
Streams == {"stdout", "stderr"}

WorkerTaskResponseTypeStream == "stream"

WorkerTaskResponseTypeProgress == "progress"

WorkerTaskResponseTypeResult == "result"

\* types.RunnerTaskResponse, restricted to the fields the instance reads or
\* writes; seq is the position of the response in the child's emissions
\* (0 for a response built by errorSession), src the stream it was read from,
\* uploaded whether uploadWorkerResponse has processed it.
RunnerTaskResponse(type, sid, owner, error, done, seq, src, uploaded) ==
    [type |-> type, sid |-> sid, owner |-> owner, error |-> error,
     done |-> done, seq |-> seq, src |-> src, uploaded |-> uploaded]

NoResponse ==
    RunnerTaskResponse("none", NoSession, NoOwner, NoError, FALSE, 0, "none",
                       FALSE)

\* ------------------------------------------------- sessions and filters
Runners == {"runner1", "runner2"}

NoRunner == "none"

SessionModeInference == "inference"

SessionModeFinetune == "finetune"

SessionModes == {SessionModeInference, SessionModeFinetune}

SessionTypeText == "text"

SessionTypeImage == "image"

SessionTypes == {SessionTypeText, SessionTypeImage}

Model_Axolotl_Mistral7b == "mistralai/Mistral-7B-Instruct-v0.1"

Model_Axolotl_SDXL == "stabilityai/stable-diffusion-xl-base-1.0"

\* the model names sessions are drawn from: one text and one image model
ModelNames == {Model_Axolotl_Mistral7b, Model_Axolotl_SDXL}

\* the sentinel "explicitly no fine-tune"
LORA_DIR_NONE == "none"

\* the values of Session.LoraDir: don't care, no fine-tune, an artifact
LoraDirs == {"", LORA_DIR_NONE, "lora1"}

\* the session type a model serves
ModelType(model) ==
    IF model = Model_Axolotl_SDXL THEN SessionTypeImage ELSE SessionTypeText

\* Model.GetMemoryRequirements(mode): the footprint of a model in a mode
GetMemoryRequirements(model, mode) ==
    IF model = Model_Axolotl_Mistral7b
      THEN (IF mode = SessionModeInference THEN 1 ELSE 2)
      ELSE (IF mode = SessionModeInference THEN 2 ELSE 3)

\* mutant of lowerRequirement: a lowest of 0 is not taken as "none yet"
lowerRequirement_KeepNone(lowest, req) ==
    IF req > 0 /\ req < lowest THEN req ELSE lowest

\* mutant of lowerRequirement: a requirement of 0 is not ignored
lowerRequirement_TakeZero(lowest, req) ==
    IF lowest = 0 \/ req < lowest THEN req ELSE lowest

\* the smaller of two requirements, a requirement of 0 counting as none
lowerRequirement(lowest, req) ==
    IF req > 0 /\ (lowest = 0 \/ req < lowest) THEN req ELSE lowest

RECURSIVE lowestOver(_, _)
\* the loop of GetLowestMemoryRequirement over the models still to visit
lowestOver(models, lowest) ==
    IF models = {}
      THEN lowest
      ELSE LET m == CHOOSE x \in models : TRUE
           IN  lowestOver(models \ {m},
                   lowerRequirement(
                       lowerRequirement(lowest,
                           GetMemoryRequirements(m, SessionModeFinetune)),
                       GetMemoryRequirements(m, SessionModeInference)))

\* GetLowestMemoryRequirement(): the lowest positive requirement of any
\* model in any mode, 0 when there is none
GetLowestMemoryRequirement == lowestOver(ModelNames, 0)

\* types.Session, restricted to the fields the queue and the scheduler read
Session(id, model, mode, lora, priority, created) ==
    [id |-> id, model_name |-> model, mode |-> mode,
     type |-> ModelType(model), lora_dir |-> lora, priority |-> priority,
     created |-> created]

\* no session: what match returns when nothing matches
NoQueuedSession == Session(NoSession, "", "", "", FALSE, 0)

\* types.SessionFilter
SessionFilter(mode, type, model, lora, memory, reject, older) ==
    [mode |-> mode, type |-> type, model_name |-> model, lora_dir |-> lora,
     memory |-> memory, reject |-> reject, older |-> older]

\* the comparator of the queue: priority first, then the older session
Before(a, b) ==
    \/ a.priority /\ ~b.priority
    \/ a.priority = b.priority /\ a.created < b.created

\* remove(session_id): removes the session if present
remove(queue, id) == SelectSeq(queue, LAMBDA q : q.id # id)

\* mutant of insertOrdered: the session is put at the end of the queue
insertOrdered_Append(queue, s) == Append(queue, s)

RECURSIVE insertOrdered(_, _)
\* the queue with session s put at its place in comparator order
insertOrdered(queue, s) ==
    IF queue = <<>>
      THEN <<s>>
      ELSE IF Before(s, Head(queue))
             THEN <<s>> \o queue
             ELSE <<Head(queue)>> \o insertOrdered(Tail(queue), s)

\* enqueue(session): idempotent by session ID, a present session is replaced
enqueue(queue, s) == insertOrdered(remove(queue, s.id), s)

\* mutant of loraDirMatches: LORA_DIR_NONE is compared like any other value
loraDirMatches_Exact(filterLoraDir, sessionLoraDir) ==
    IF filterLoraDir = "" THEN TRUE ELSE sessionLoraDir = filterLoraDir

\* the lora_dir rule of the filter predicate
loraDirMatches(filterLoraDir, sessionLoraDir) ==
    IF filterLoraDir = ""
      THEN TRUE
      ELSE IF filterLoraDir = LORA_DIR_NONE
             THEN sessionLoraDir = "" \/ sessionLoraDir = LORA_DIR_NONE
             ELSE sessionLoraDir = filterLoraDir

\* the filter predicate at time t
matches(s, filter, t) ==
    /\ filter.mode = "" \/ filter.mode = s.mode
    /\ filter.type = "" \/ filter.type = s.type
    /\ filter.model_name = "" \/ filter.model_name = s.model_name
    /\ loraDirMatches(filter.lora_dir, s.lora_dir)
    /\ GetMemoryRequirements(s.model_name, s.mode) <= filter.memory
    /\ <<s.model_name, s.mode>> \notin filter.reject
    /\ t - s.created >= filter.older

RECURSIVE match(_, _, _)
\* match(filter): the first session in comparator order that satisfies the
\* filter predicate, or none; the queue is not changed
match(queue, filter, t) ==
    IF queue = <<>>
      THEN NoQueuedSession
      ELSE IF matches(Head(queue), filter, t)
             THEN Head(queue)
             ELSE match(Tail(queue), filter, t)

\* ------------------------------------------------- runners and instances
\* mutant of useLoraDir: an empty value is not hoisted
useLoraDir_NoHoist(lora) == lora

\* the lora_dir of the filter of an instance created for a session: an empty
\* value is hoisted to LORA_DIR_NONE
useLoraDir(lora) == IF lora = "" THEN LORA_DIR_NONE ELSE lora

\* NewModelInstance(initialSession): the filter the instance is pinned to,
\* and the session it is busy with (NoSession when idle)
NewModelInstance(initialSession, busyWith) ==
    [model_name |-> initialSession.model_name,
     mode |-> initialSession.mode,
     lora_dir |-> useLoraDir(initialSession.lora_dir),
     type |-> initialSession.type,
     session |-> busyWith]

\* the instance is idle: it has no session running or being prepared
IsIdle(inst) == inst.session = NoSession

RECURSIVE usedMemory(_)
\* the sum of the footprints of a runner's instances
usedMemory(instances) ==
    IF instances = <<>>
      THEN 0
      ELSE GetMemoryRequirements(Head(instances).model_name,
                                 Head(instances).mode)
           + usedMemory(Tail(instances))

\* mutant of freeMemory: the footprints of the instances are not deducted
freeMemory_Total(instances) == TotalMemory

\* free memory = total - sum of the instance footprints
freeMemory(instances) == TotalMemory - usedMemory(instances)

\* the narrow filter of the warm phase, pinned to an idle instance's model,
\* mode and lora_dir; the instance is loaded, so a session of its model and
\* mode fits
narrowFilter(inst) ==
    SessionFilter(inst.mode, inst.type, inst.model_name, inst.lora_dir,
                  GetMemoryRequirements(inst.model_name, inst.mode), {}, 0)

\* mutant of rejectList: the idle instances are listed instead
rejectList_Idle(instances) ==
    {<<instances[i].model_name, instances[i].mode>> :
        i \in {j \in DOMAIN instances : IsIdle(instances[j])}}

\* the (model, mode) pairs of the instances that are busy or not yet idle
rejectList(instances) ==
    {<<instances[i].model_name, instances[i].mode>> :
        i \in {j \in DOMAIN instances : ~IsIdle(instances[j])}}

\* the broad filter of the cold phase, built from the runner's state
broadFilter(instances) ==
    SessionFilter("", "", "", "", freeMemory(instances),
                  rejectList(instances), 0)

\* the result of a poll: the session, the phase that found it and, for the
\* warm phase, the position of the idle instance it goes to
PollResult(session, phase, inst) ==
    [session |-> session, phase |-> phase, inst |-> inst]

\* no poll of the runner is in flight
NoPoll == PollResult(NoQueuedSession, "idle", 0)

\* the idle instances whose narrow filter matches a queued session
warmHits(queue, instances, t) ==
    {i \in DOMAIN instances :
        /\ IsIdle(instances[i])
        /\ match(queue, narrowFilter(instances[i]), t) # NoQueuedSession}

\* mutant of poll: the cold phase runs first
poll_ColdFirst(queue, instances, t) ==
    IF match(queue, broadFilter(instances), t) # NoQueuedSession
      THEN PollResult(match(queue, broadFilter(instances), t), "cold", 0)
      ELSE IF warmHits(queue, instances, t) # {}
             THEN LET i == CHOOSE x \in warmHits(queue, instances, t) :
                              \A y \in warmHits(queue, instances, t) : x <= y
                  IN  PollResult(match(queue, narrowFilter(instances[i]), t),
                                 "warm", i)
             ELSE PollResult(NoQueuedSession, "none", 0)

\* the two-phase match of one poll: the warm phase asks for each idle
\* instance in turn and the first hit wins; the cold phase runs only when
\* the warm phase found nothing
poll(queue, instances, t) ==
    IF warmHits(queue, instances, t) # {}
      THEN LET i == CHOOSE x \in warmHits(queue, instances, t) :
                      \A y \in warmHits(queue, instances, t) : x <= y
           IN  PollResult(match(queue, narrowFilter(instances[i]), t),
                          "warm", i)
      ELSE LET s == match(queue, broadFilter(instances), t)
           IN  IF s # NoQueuedSession
                 THEN PollResult(s, "cold", 0)
                 ELSE PollResult(NoQueuedSession, "none", 0)

\* the instances a runner may hold when the behaviour starts: none, or one
\* idle instance left by an earlier session
InitialInstances ==
    {<<>>} \cup
    {<<NewModelInstance(Session(NoSession, m, SessionModeInference, l,
                                FALSE, 0), NoSession)>> :
        m \in ModelNames, l \in LoraDirs}

\* what the last call of match was given and what it returned
MatchCall(filter, result) == [filter |-> filter, result |-> result]

NoMatchCall ==
    MatchCall(SessionFilter("", "", "", "", 0, {}, 0), NoQueuedSession)

\* ---- the tools API ----

\* the largest number of tools ever created
MaxTools == 2

ToolIDs == 1 .. MaxTools

\* the users who send requests; a request context carries its user as
\* Owner
Users == {"user1", "user2"}

OwnerTypeUser == "user"

OwnerTypes == {OwnerTypeUser, "system"}

\* getRequestContext: the owner and owner type of the caller
getRequestContext(user) == [Owner |-> user, OwnerType |-> OwnerTypeUser]

ToolNames == {"tool1", "tool2"}

ToolTypeAPI == "api"

ToolTypeFunction == "function"

ToolTypes == {ToolTypeAPI, ToolTypeFunction}

\* the request bodies: a types.Tool as the caller wrote it, owner and
\* owner type included; a body names user1 as a user or user2 as the
\* system, so that it differs from every caller in one of the two
ToolBodies ==
    {b \in [name : ToolNames, tool_type : ToolTypes, owner : Users,
            owner_type : OwnerTypes] :
        b.owner_type = OwnerTypeUser <=> b.owner = "user1"}

\* no row under an ID
NoTool == [id |-> 0]

\* the connections requests arrive on, one request at a time on each
Connections == {"conn1", "conn2"}

NoRequest == [kind |-> "none"]

\* the responses of the handlers
StatusOK == "200"

StatusBadRequest == "400"

StatusNotFound == "404"

StatusInternalServerError == "500"

NoToolResponse == [id |-> 0, status |-> "none"]

\* validateTool: only API tools pass (their API config is taken as
\* complete)
validateTool(tool) == tool.tool_type = ToolTypeAPI

\* mutant of updatedTool: the owner and owner type of the body are kept
updatedTool_FromBody(body, id, existing) ==
    [id |-> id, owner |-> body.owner, owner_type |-> body.owner_type,
     name |-> body.name, tool_type |-> body.tool_type]

\* the row updateTool writes: the body under the ID of the path, with the
\* owner and owner type of the row read
updatedTool(body, id, existing) ==
    [id |-> id, owner |-> existing.owner, owner_type |-> existing.owner_type,
     name |-> body.name, tool_type |-> body.tool_type]

VARIABLES
    currentSession,         \* instance.currentSession (NoSession = nil)
    nextSession,            \* instance.nextSession
    queuedSession,          \* instance.queuedSession
    lastActivityTimestamp,  \* instance.lastActivityTimestamp
    currentCommand,         \* instance.currentCommand # nil
    finishChan,             \* number of values in instance.finishChan
    forwarded,              \* responses passed to instance.responseHandler
    now,                    \* time.Now().Unix()
    handed,                 \* number of sessions handed to queueSession
    download,               \* per session: state of its downloadSession call
    assigned,               \* sessions passed to assignSessionTask, in order
    procState,              \* the child process: none, failed, running, exited
    exitErr,                \* cmd.Wait() returned an error
    waitPc,                 \* position of the Wait goroutine
    childTask,              \* the task the child is executing (its session)
    childEmitted,           \* stream/progress responses the child has emitted
    emitted,                \* responses emitted by the child so far
    pipe,                   \* per stream: responses not yet handled
    handlerPc,              \* per stream: position in taskResponseHandler
    handling,               \* per stream: the taskResponse being handled
    panicked,               \* the runner process died on a nil dereference
    peeked,                 \* the session the last initial-session peek returned
    killed,                 \* the kill signal was sent to the child's group
    cancelled,              \* the instance's parent context was cancelled
    reported,               \* the supervisor reported the creation failure
    tickedAt,               \* the time of the supervisor's last tick
    stopResult,             \* what the call of stopProcess returned
    registry,               \* per model and mode: its memory requirement
    toVisit,                \* the models the loop has not visited yet
    lowestMemoryRequirement, \* the loop's lowest requirement so far
    tools,                  \* the tools table: per ID, its row if any
    created,                \* how many tool IDs have been given out
    toolRequests,           \* per connection: the request between its
                            \* read of the store and its write
    toolResponse,           \* the last response a tools handler returned
    squeue,                 \* the session queue, in comparator order
    enqueued,               \* number of sessions enqueued so far
    insts,                  \* per runner: its model instances, oldest first
    qlock,                  \* the runner whose poll holds the queue mutex
    pending,                \* per runner: the match of its poll in flight
    polled,                 \* per session: the runners a poll returned it to
    matched                 \* the last match call: its filter and its result

\* the state of one model instance
instanceVars == <<currentSession, nextSession, queuedSession,
                  lastActivityTimestamp, currentCommand, finishChan,
                  forwarded, handed, download, assigned, procState, exitErr,
                  waitPc, childTask, childEmitted, emitted, pipe, handlerPc,
                  handling, panicked>>

\* the state of the session queue, the scheduler and the runners
schedVars == <<squeue, enqueued, insts, qlock, pending, polled, matched>>

\* what the supervisor did to the instance
supVars == <<killed, cancelled, reported, tickedAt, stopResult>>

\* the state of a call of GetLowestMemoryRequirement
regVars == <<registry, toVisit, lowestMemoryRequirement>>

\* the tools table and the requests of the tools API
toolVars == <<tools, created, toolRequests, toolResponse>>

vars == <<instanceVars, now, peeked, supVars, schedVars, regVars, toolVars>>

slotVars == <<currentSession, nextSession, queuedSession>>

procVars == <<currentCommand, procState, exitErr, waitPc, finishChan>>

childVars == <<childTask, childEmitted, emitted>>

handlerVars == <<handlerPc, handling>>

\* the state NewModelInstance returns: no slot set, no command, an empty
\* finishChan
InstanceInit ==
    /\ currentSession = NoSession
    /\ nextSession = NoSession
    /\ queuedSession = NoSession
    /\ lastActivityTimestamp = 0
    /\ currentCommand = FALSE
    /\ finishChan = 0
    /\ forwarded = <<>>
    /\ now = 0
    /\ handed = 0
    /\ download = [s \in Sessions |-> "none"]
    /\ assigned = <<>>
    /\ procState = "none"
    /\ exitErr = FALSE
    /\ waitPc = "none"
    /\ childTask = NoSession
    /\ childEmitted = 0
    /\ emitted = 0
    /\ pipe = [h \in Streams |-> <<>>]
    /\ handlerPc = [h \in Streams |-> "idle"]
    /\ handling = [h \in Streams |-> NoResponse]
    /\ panicked = FALSE
    /\ peeked = NoSession
    /\ killed = FALSE
    /\ cancelled = FALSE
    /\ reported = FALSE
    /\ tickedAt = 0
    /\ stopResult = NotStopped

\* an empty queue, no poll in flight and nothing returned yet
QueueInit ==
    /\ squeue = <<>>
    /\ enqueued = 0
    /\ qlock = NoRunner
    /\ pending = [r \in Runners |-> NoPoll]
    /\ polled = [s \in 1 .. MaxQueued |-> <<>>]
    /\ matched = NoMatchCall

\* the memory requirements of the models and a call of
\* GetLowestMemoryRequirement that has visited no model yet
RegistryInit ==
    /\ registry = [m \in ModelNames |->
                      [mode \in SessionModes |-> GetMemoryRequirements(m, mode)]]
    /\ toVisit = ModelNames
    /\ lowestMemoryRequirement = 0

\* an empty tools table and no request
ToolsInit ==
    /\ tools = [id \in ToolIDs |-> NoTool]
    /\ created = 0
    /\ toolRequests = [c \in Connections |-> NoRequest]
    /\ toolResponse = NoToolResponse

\* one instance just created, an empty queue and runners without instances
Init ==
    /\ InstanceInit
    /\ QueueInit
    /\ RegistryInit
    /\ ToolsInit
    /\ insts = [r \in Runners |-> <<>>]

\* the clock advances
Tick ==
    /\ ~panicked
    /\ now < MaxTime
    /\ now' = now + 1
    /\ UNCHANGED <<slotVars, lastActivityTimestamp, forwarded, handed,
                   download, assigned, procVars, childVars, pipe,
                   handlerVars, panicked>>
    /\ UNCHANGED <<peeked, supVars, schedVars, regVars, toolVars>>

\* ------------------------------------------------------------ errorSession
\* the response errorSession(session, err) builds: type result, the session
\* ID and err.Error(); Owner and Done keep their zero values
errorSession(s, err) ==
    RunnerTaskResponse(WorkerTaskResponseTypeResult, s, NoOwner, err, FALSE,
                       0, "none", FALSE)

\* instance.responseHandler(res)
responseHandler(res) == forwarded' = Append(forwarded, res)

\* ------------------------------------------------------------ queueSession
\* mutant of queueSession: the next slot is not cleared
queueSession_KeepNext ==
    /\ ~panicked
    /\ handed < MaxSessions
    /\ handed' = handed + 1
    /\ queuedSession' = handed + 1
    /\ download' = [download EXCEPT ![handed + 1] = "pending"]
    /\ UNCHANGED <<currentSession, nextSession, lastActivityTimestamp,
                   forwarded, now, assigned, procVars, childVars, pipe,
                   handlerVars, panicked>>
    /\ UNCHANGED <<peeked, supVars, schedVars, regVars, toolVars>>

\* queueSession up to the call of downloadSession: the supervisor hands the
\* next session to the instance
queueSession ==
    /\ ~panicked
    /\ handed < MaxSessions
    /\ handed' = handed + 1
    /\ queuedSession' = handed + 1
    /\ nextSession' = NoSession
    /\ download' = [download EXCEPT ![handed + 1] = "pending"]
    /\ UNCHANGED <<currentSession, lastActivityTimestamp, forwarded, now,
                   assigned, procVars, childVars, pipe, handlerVars, panicked>>
    /\ UNCHANGED <<peeked, supVars, schedVars, regVars, toolVars>>

\* mutant of queueSessionFailed: the slots are cleared but no error response
\* is emitted
queueSessionFailed_NoError(s) ==
    /\ ~panicked
    /\ download[s] = "pending"
    /\ download' = [download EXCEPT ![s] = "failed"]
    /\ queuedSession' = NoSession
    /\ nextSession' = NoSession
    /\ UNCHANGED <<currentSession, lastActivityTimestamp, forwarded, now,
                   handed, assigned, procVars, childVars, pipe, handlerVars,
                   panicked>>
    /\ UNCHANGED <<peeked, supVars, schedVars, regVars, toolVars>>

\* downloadSession returned an error
queueSessionFailed(s) ==
    /\ ~panicked
    /\ download[s] = "pending"
    /\ download' = [download EXCEPT ![s] = "failed"]
    /\ queuedSession' = NoSession
    /\ nextSession' = NoSession
    /\ responseHandler(errorSession(s, downloadSessionErr))
    /\ UNCHANGED <<currentSession, lastActivityTimestamp, now, handed,
                   assigned, procVars, childVars, pipe, handlerVars, panicked>>
    /\ UNCHANGED <<peeked, supVars, schedVars, regVars, toolVars>>

\* mutant of queueSessionPrepared: the queued slot is not cleared
queueSessionPrepared_KeepQueued(s) ==
    /\ ~panicked
    /\ download[s] = "pending"
    /\ download' = [download EXCEPT ![s] = "prepared"]
    /\ nextSession' = s
    /\ UNCHANGED <<currentSession, queuedSession, lastActivityTimestamp,
                   forwarded, now, handed, assigned, procVars, childVars,
                   pipe, handlerVars, panicked>>
    /\ UNCHANGED <<peeked, supVars, schedVars, regVars, toolVars>>

\* downloadSession returned the prepared session
queueSessionPrepared(s) ==
    /\ ~panicked
    /\ download[s] = "pending"
    /\ download' = [download EXCEPT ![s] = "prepared"]
    /\ queuedSession' = NoSession
    /\ nextSession' = s
    /\ UNCHANGED <<currentSession, lastActivityTimestamp, forwarded, now,
                   handed, assigned, procVars, childVars, pipe, handlerVars,
                   panicked>>
    /\ UNCHANGED <<peeked, supVars, schedVars, regVars, toolVars>>

\* ------------------------------------------------------- assignSessionTask
\* mutant of assignSessionTask: the session is not made current
assignSessionTask_KeepCurrent(s) ==
    /\ lastActivityTimestamp' = now
    /\ UNCHANGED currentSession
    /\ assigned' = Append(assigned, s)

\* assignSessionTask(session): the slot and timestamp writes happen before
\* model.GetTask is called, so they happen whether or not it fails
assignSessionTask(s) ==
    /\ lastActivityTimestamp' = now
    /\ currentSession' = s
    /\ assigned' = Append(assigned, s)

\* the next-task pop served to the child: take the next session, clear the
\* slot and assign it; taskOk is the outcome of model.GetTask.  With an
\* empty next slot the pop returns no task and changes nothing.
popNextTask(taskOk) ==
    /\ ~panicked
    /\ procState = "running"
    /\ childTask = NoSession
    /\ \/ /\ nextSession # NoSession
          /\ assignSessionTask(nextSession)
          /\ nextSession' = NoSession
          /\ childTask' = IF taskOk THEN nextSession ELSE NoSession
          /\ UNCHANGED <<queuedSession, forwarded, now, handed, download,
                         procVars, childEmitted, emitted, pipe, handlerVars,
                         panicked>>
       \/ /\ nextSession = NoSession
          /\ taskOk
          /\ UNCHANGED vars
    /\ UNCHANGED <<peeked, supVars, schedVars, regVars, toolVars>>

\* ------------------------------------------------------ initial-session peek
\* mutant of peekInitialSession: the peek takes the queued session and makes
\* it current
peekInitialSession_Take ==
    /\ ~panicked
    /\ procState = "running"
    /\ peeked' = IF currentSession # NoSession THEN currentSession
                                               ELSE queuedSession
    /\ currentSession' = peeked'
    /\ queuedSession' = NoSession
    /\ UNCHANGED <<nextSession, lastActivityTimestamp, currentCommand,
                   finishChan, forwarded, handed, download, assigned,
                   procState, exitErr, waitPc, childVars, pipe, handlerVars,
                   panicked, now, supVars, schedVars, regVars, toolVars>>

\* the initial-session peek served to the child: it answers with the current
\* session, or else the queued one (NoSession when there is neither), and
\* writes nothing
peekInitialSession ==
    /\ ~panicked
    /\ procState = "running"
    /\ peeked' = IF currentSession # NoSession THEN currentSession
                                               ELSE queuedSession
    /\ UNCHANGED <<instanceVars, now, supVars, schedVars, regVars, toolVars>>

\* ------------------------------------------------------------ startProcess
\* startProcess: GetCommand fails or returns no command ("nocmd"), a pipe
\* or cmd.Start fails after currentCommand was set ("startfail"), or the
\* child is started and the Wait goroutine launched ("ok")
startProcess(outcome) ==
    /\ ~panicked
    /\ procState = "none"
    /\ currentCommand' = (outcome # "nocmd")
    /\ procState' = IF outcome = "ok" THEN "running" ELSE "failed"
    /\ waitPc' = IF outcome = "ok" THEN "waiting" ELSE "none"
    /\ UNCHANGED <<slotVars, lastActivityTimestamp, finishChan, forwarded,
                   now, handed, download, assigned, exitErr, childVars, pipe,
                   handlerVars, panicked>>
    /\ UNCHANGED <<peeked, supVars, schedVars, regVars, toolVars>>

\* ---------------------------------------------------------------- the child
\* io.Copy moves what the child wrote to a pipe into the text stream, in the
\* order it was written
childWrite(q, r) == Append(q, r)

\* the child writes a stream or progress response for its task to one of
\* its output streams: stream chunks on stdout, progress lines on stderr
childEmit(h) ==
    /\ ~panicked
    /\ procState = "running"
    /\ childTask # NoSession
    /\ childEmitted < MaxEmit
    /\ childEmitted' = childEmitted + 1
    /\ emitted' = emitted + 1
    /\ pipe' = [pipe EXCEPT ![h] = childWrite(@,
                  RunnerTaskResponse(
                      IF h = "stdout" THEN WorkerTaskResponseTypeStream
                                      ELSE WorkerTaskResponseTypeProgress,
                      childTask, NoOwner, NoError, FALSE, emitted + 1, h,
                      FALSE))]
    /\ UNCHANGED <<slotVars, lastActivityTimestamp, forwarded, now, handed,
                   download, assigned, procVars, childTask, handlerVars,
                   panicked>>
    /\ UNCHANGED <<peeked, supVars, schedVars, regVars, toolVars>>

\* the child writes the result of its task to stdout and goes back to
\* polling the next-task URL
childResult ==
    /\ ~panicked
    /\ procState = "running"
    /\ childTask # NoSession
    /\ emitted' = emitted + 1
    /\ pipe' = [pipe EXCEPT !["stdout"] = childWrite(@,
                  RunnerTaskResponse(WorkerTaskResponseTypeResult, childTask,
                                     NoOwner, NoError, TRUE, emitted + 1,
                                     "stdout", FALSE))]
    /\ childTask' = NoSession
    /\ UNCHANGED <<slotVars, lastActivityTimestamp, forwarded, now, handed,
                   download, assigned, procVars, childEmitted, handlerVars,
                   panicked>>
    /\ UNCHANGED <<peeked, supVars, schedVars, regVars, toolVars>>

\* the child exits with a zero or a non-zero status (or is killed) and
\* cmd.Wait() returns in the Wait goroutine; on an error the goroutine tests
\* instance.currentSession != nil
childExit(err) ==
    /\ ~panicked
    /\ procState = "running"
    /\ procState' = "exited"
    /\ exitErr' = err
    /\ childTask' = NoSession
    /\ waitPc' = IF err /\ currentSession # NoSession THEN "error" ELSE "finish"
    /\ UNCHANGED <<slotVars, lastActivityTimestamp, forwarded, now, handed,
                   download, assigned, currentCommand, finishChan,
                   childEmitted, emitted, pipe, handlerVars, panicked>>
    /\ UNCHANGED <<peeked, supVars, schedVars, regVars, toolVars>>

\* ------------------------------------------------------ the Wait goroutine
\* instance.errorSession(instance.currentSession, err): the slot is read
\* again, and errorSession dereferences it; err is what cmd.Wait returned
\* (stderrBuf is written by io.Copy but read nowhere)
waitErrorSession ==
    /\ ~panicked
    /\ waitPc = "error"
    /\ IF currentSession = NoSession
         THEN /\ panicked' = TRUE
              /\ UNCHANGED <<forwarded, waitPc>>
         ELSE /\ responseHandler(errorSession(currentSession, cmdWaitErr))
              /\ waitPc' = "finish"
              /\ UNCHANGED panicked
    /\ UNCHANGED <<slotVars, lastActivityTimestamp, now, handed, download,
                   assigned, currentCommand, procState, exitErr, finishChan,
                   childVars, pipe, handlerVars>>
    /\ UNCHANGED <<peeked, supVars, schedVars, regVars, toolVars>>

\* instance.finishChan <- true
waitFinish ==
    /\ ~panicked
    /\ waitPc = "finish"
    /\ finishChan' = finishChan + 1
    /\ waitPc' = "done"
    /\ UNCHANGED <<slotVars, lastActivityTimestamp, forwarded, now, handed,
                   download, assigned, currentCommand, procState, exitErr,
                   childVars, pipe, handlerVars, panicked>>
    /\ UNCHANGED <<peeked, supVars, schedVars, regVars, toolVars>>

\* ----------------------------------------------------- taskResponseHandler
\* the handler of stream h returns without forwarding its response
trhReturn(h) ==
    /\ handlerPc' = [handlerPc EXCEPT ![h] = "idle"]
    /\ handling' = [handling EXCEPT ![h] = NoResponse]

\* the text stream h calls taskResponseHandler with its oldest response:
\* if instance.currentSession == nil { return }
trhNilCheck(h) ==
    /\ ~panicked
    /\ handlerPc[h] = "idle"
    /\ pipe[h] # <<>>
    /\ pipe' = [pipe EXCEPT ![h] = Tail(@)]
    /\ IF currentSession = NoSession
         THEN trhReturn(h)
         ELSE /\ handlerPc' = [handlerPc EXCEPT ![h] = "idcheck"]
              /\ handling' = [handling EXCEPT ![h] = Head(pipe[h])]
    /\ UNCHANGED <<slotVars, lastActivityTimestamp, forwarded, now, handed,
                   download, assigned, procVars, childVars, panicked>>
    /\ UNCHANGED <<peeked, supVars, schedVars, regVars, toolVars>>

\* mutant of trhIdCheck: the session IDs are not compared
trhIdCheck_NoIdTest(h) ==
    /\ ~panicked
    /\ handlerPc[h] = "idcheck"
    /\ IF currentSession = NoSession
         THEN /\ panicked' = TRUE
              /\ UNCHANGED <<handlerVars, lastActivityTimestamp>>
         ELSE /\ UNCHANGED panicked
              /\ handling' = [handling EXCEPT
                                ![h].owner = OwnerOf(currentSession)]
              /\ lastActivityTimestamp' = now
              /\ handlerPc' = [handlerPc EXCEPT ![h] =
                   IF handling[h].type = WorkerTaskResponseTypeResult
                     THEN "upload" ELSE "forward"]
    /\ UNCHANGED <<slotVars, forwarded, now, handed, download, assigned,
                   procVars, childVars, pipe>>
    /\ UNCHANGED <<peeked, supVars, schedVars, regVars, toolVars>>

\* if instance.currentSession.ID != taskResponse.SessionID { return }
\* taskResponse.Owner = instance.currentSession.Owner
\* instance.lastActivityTimestamp = time.Now().Unix()
\* The slot is read again after the nil test: a nil slot is dereferenced.
trhIdCheck(h) ==
    /\ ~panicked
    /\ handlerPc[h] = "idcheck"
    /\ IF currentSession = NoSession
         THEN /\ panicked' = TRUE
              /\ UNCHANGED <<handlerVars, lastActivityTimestamp>>
         ELSE /\ UNCHANGED panicked
              /\ IF currentSession # handling[h].sid
                   THEN /\ trhReturn(h)
                        /\ UNCHANGED lastActivityTimestamp
                   ELSE /\ handling' = [handling EXCEPT
                                ![h].owner = OwnerOf(currentSession)]
                        /\ lastActivityTimestamp' = now
                        /\ handlerPc' = [handlerPc EXCEPT ![h] =
                             IF handling[h].type = WorkerTaskResponseTypeResult
                               THEN "upload" ELSE "forward"]
    /\ UNCHANGED <<slotVars, forwarded, now, handed, download, assigned,
                   procVars, childVars, pipe>>
    /\ UNCHANGED <<peeked, supVars, schedVars, regVars, toolVars>>

\* mutant of trhUpload: the current session is cleared only when the upload
\* failed
trhUpload_KeepCurrent(h, ok) ==
    /\ ~panicked
    /\ handlerPc[h] = "upload"
    /\ currentSession' = IF ok THEN currentSession ELSE NoSession
    /\ IF ok
         THEN /\ handling' = [handling EXCEPT ![h].uploaded = TRUE]
              /\ handlerPc' = [handlerPc EXCEPT ![h] = "forward"]
         ELSE trhReturn(h)
    /\ UNCHANGED <<nextSession, queuedSession, lastActivityTimestamp,
                   forwarded, now, handed, download, assigned, procVars,
                   childVars, pipe, panicked>>
    /\ UNCHANGED <<peeked, supVars, schedVars, regVars, toolVars>>

\* mutant of trhUpload: after a failed upload the handler goes on and
\* forwards the response
trhUpload_ForwardOnError(h, ok) ==
    /\ ~panicked
    /\ handlerPc[h] = "upload"
    /\ currentSession' = NoSession
    /\ handling' = [handling EXCEPT ![h].uploaded = ok]
    /\ handlerPc' = [handlerPc EXCEPT ![h] = "forward"]
    /\ UNCHANGED <<nextSession, queuedSession, lastActivityTimestamp,
                   forwarded, now, handed, download, assigned, procVars,
                   childVars, pipe, panicked>>
    /\ UNCHANGED <<peeked, supVars, schedVars, regVars, toolVars>>

\* uploadWorkerResponse returned (ok or with an error) and the current
\* session is cleared; on an error the handler returns
trhUpload(h, ok) ==
    /\ ~panicked
    /\ handlerPc[h] = "upload"
    /\ currentSession' = NoSession
    /\ IF ok
         THEN /\ handling' = [handling EXCEPT ![h].uploaded = TRUE]
              /\ handlerPc' = [handlerPc EXCEPT ![h] = "forward"]
         ELSE trhReturn(h)
    /\ UNCHANGED <<nextSession, queuedSession, lastActivityTimestamp,
                   forwarded, now, handed, download, assigned, procVars,
                   childVars, pipe, panicked>>
    /\ UNCHANGED <<peeked, supVars, schedVars, regVars, toolVars>>

\* mutant of trhForward: the response is delivered ahead of the responses
\* forwarded before it
trhForward_Prepend(h) ==
    /\ ~panicked
    /\ handlerPc[h] = "forward"
    /\ forwarded' = <<handling[h]>> \o forwarded
    /\ trhReturn(h)
    /\ UNCHANGED <<slotVars, lastActivityTimestamp, now, handed, download,
                   assigned, procVars, childVars, pipe, panicked>>
    /\ UNCHANGED <<peeked, supVars, schedVars, regVars, toolVars>>

\* err = instance.responseHandler(taskResponse)
trhForward(h) ==
    /\ ~panicked
    /\ handlerPc[h] = "forward"
    /\ responseHandler(handling[h])
    /\ trhReturn(h)
    /\ UNCHANGED <<slotVars, lastActivityTimestamp, now, handed, download,
                   assigned, procVars, childVars, pipe, panicked>>
    /\ UNCHANGED <<peeked, supVars, schedVars, regVars, toolVars>>

\* --------------------------------------------------------- specification
Next ==
    \/ queueSession
    \/ \E s \in Sessions : queueSessionFailed(s)
    \/ \E s \in Sessions : queueSessionPrepared(s)
    \/ \E taskOk \in BOOLEAN : popNextTask(taskOk)
    \/ \E outcome \in {"nocmd", "startfail", "ok"} : startProcess(outcome)
    \/ \E h \in Streams : childEmit(h)
    \/ childResult
    \/ \E err \in BOOLEAN : childExit(err)
    \/ waitErrorSession
    \/ waitFinish
    \/ \E h \in Streams : trhNilCheck(h)
    \/ \E h \in Streams : trhIdCheck(h)
    \/ \E h \in Streams, ok \in BOOLEAN : trhUpload(h, ok)
    \/ \E h \in Streams : trhForward(h)

\* the instance with the clock standing still: no claim checked under Spec
\* reads a timestamp
Spec == Init /\ [][Next]_vars

\* the instance with the clock advancing
SpecClock == Init /\ [][Next \/ Tick]_vars

\* the instance serving peeks while sessions are handed to it, run and
\* finish and the clock advances; the child emits results only and does not
\* exit
NextPeek ==
    \/ queueSession
    \/ \E s \in Sessions : queueSessionFailed(s)
    \/ \E s \in Sessions : queueSessionPrepared(s)
    \/ \E taskOk \in BOOLEAN : popNextTask(taskOk)
    \/ \E outcome \in {"nocmd", "startfail", "ok"} : startProcess(outcome)
    \/ childResult
    \/ \E h \in Streams : trhNilCheck(h)
    \/ \E h \in Streams : trhIdCheck(h)
    \/ \E h \in Streams, ok \in BOOLEAN : trhUpload(h, ok)
    \/ \E h \in Streams : trhForward(h)
    \/ Tick
    \/ peekInitialSession

SpecPeek == Init /\ [][NextPeek]_vars

\* ------------------------------------------ session queue and scheduler
\* the lora_dir values a session of a mode is enqueued with: an inference
\* session may name a fine-tune artifact, a fine-tune session produces one
SessionLoraDirs(mode) ==
    IF mode = SessionModeInference THEN LoraDirs ELSE {""}

\* the clock of the control plane, counted in sessions enqueued: a session
\* is stamped when it is enqueued
queueClock == enqueued

\* the external API enqueues a new session, under the queue mutex
enqueueSession(model, mode, lora, priority) ==
    /\ qlock = NoRunner
    /\ enqueued < MaxQueued
    /\ enqueued' = enqueued + 1
    /\ squeue' = enqueue(squeue, Session(enqueued + 1, model, mode, lora,
                                         priority, queueClock + 1))
    /\ UNCHANGED <<insts, qlock, pending, polled, matched, instanceVars, now,
                   peeked, supVars, regVars, toolVars>>

\* the filters match is applied to: any mode, model and lora_dir, with at
\* most one of the type, memory, reject and older clauses restricting
Filters ==
    {f \in {SessionFilter(mode, type, model, lora, memory, reject, older) :
               mode \in {""} \cup SessionModes,
               type \in {"", SessionTypeImage},
               model \in {""} \cup ModelNames,
               lora \in LoraDirs,
               memory \in {GetLowestMemoryRequirement, TotalMemory},
               reject \in {{}, {<<Model_Axolotl_Mistral7b,
                                  SessionModeInference>>}},
               older \in {0, 1}} :
        Cardinality({c \in {"type", "memory", "reject", "older"} :
                       \/ c = "type" /\ f.type # ""
                       \/ c = "memory" /\ f.memory # TotalMemory
                       \/ c = "reject" /\ f.reject # {}
                       \/ c = "older" /\ f.older # 0}) <= 1}

\* match(filter) is called on the queue
applyMatch(filter) ==
    /\ qlock = NoRunner
    /\ matched = NoMatchCall
    /\ matched' = MatchCall(filter, match(squeue, filter, queueClock))
    /\ UNCHANGED <<squeue, enqueued, insts, qlock, pending, polled,
                   instanceVars, now, peeked, supVars, regVars, toolVars>>

\* mutant of pollMatch: the poll does not wait for the queue mutex
pollMatch_NoMutex(r) ==
    /\ pending[r] = NoPoll
    /\ freeMemory(insts[r]) >= GetLowestMemoryRequirement
    /\ qlock' = r
    /\ pending' = [pending EXCEPT ![r] = poll(squeue, insts[r], queueClock)]
    /\ UNCHANGED <<squeue, enqueued, insts, polled, matched, instanceVars,
                   now, peeked, supVars, regVars, toolVars>>

\* a tick of runner r's supervisor polls the control plane when its free
\* memory is not below the lowest model footprint; the poll handler takes
\* the queue mutex and runs the two-phase match on the runner's state
pollMatch(r) ==
    /\ qlock = NoRunner
    /\ pending[r] = NoPoll
    /\ freeMemory(insts[r]) >= GetLowestMemoryRequirement
    /\ qlock' = r
    /\ pending' = [pending EXCEPT ![r] = poll(squeue, insts[r], queueClock)]
    /\ UNCHANGED <<squeue, enqueued, insts, polled, matched, instanceVars,
                   now, peeked, supVars, regVars, toolVars>>

\* the supervisor's use of a returned session: the idle instance the warm
\* phase found gets it, or a new instance is created for it
handSession(instances, res) ==
    IF res.phase = "warm"
      THEN [instances EXCEPT ![res.inst].session = res.session.id]
      ELSE Append(instances, NewModelInstance(res.session, res.session.id))

\* the poll handler removes the matched session from the queue, releases
\* the mutex and returns the session to runner r, whose supervisor hands it
\* to an instance
pollCommit(r) ==
    /\ pending[r] # NoPoll
    /\ qlock' = NoRunner
    /\ pending' = [pending EXCEPT ![r] = NoPoll]
    /\ IF pending[r].phase = "none"
         THEN UNCHANGED <<squeue, insts, polled>>
         ELSE /\ squeue' = remove(squeue, pending[r].session.id)
              /\ polled' = [polled EXCEPT
                              ![pending[r].session.id] = Append(@, r)]
              /\ insts' = [insts EXCEPT
                             ![r] = handSession(@, pending[r])]
    /\ UNCHANGED <<enqueued, matched, instanceVars, now, peeked, supVars, regVars, toolVars>>

\* the session of instance i of runner r ends with its terminal response:
\* the instance is idle again
sessionDone(r, i) ==
    /\ i \in DOMAIN insts[r]
    /\ ~IsIdle(insts[r][i])
    /\ insts' = [insts EXCEPT ![r][i].session = NoSession]
    /\ UNCHANGED <<squeue, enqueued, qlock, pending, polled, matched,
                   instanceVars, now, peeked, supVars, regVars, toolVars>>

\* runners that start with no instance or one idle instance, and an empty
\* queue
InitScheduler ==
    /\ InstanceInit
    /\ QueueInit
    /\ RegistryInit
    /\ ToolsInit
    /\ insts \in [Runners -> InitialInstances]

NextScheduler ==
    \/ \E model \in ModelNames, mode \in SessionModes, priority \in BOOLEAN :
          \E lora \in SessionLoraDirs(mode) :
             enqueueSession(model, mode, lora, priority)
    \/ \E r \in Runners : pollMatch(r)
    \/ \E r \in Runners : pollCommit(r)
    \/ \E r \in Runners, i \in 1 .. MaxQueued + 1 : sessionDone(r, i)

\* the control plane: the queue, the scheduler and the polling runners
SpecScheduler == InitScheduler /\ [][NextScheduler]_vars

NextMatch ==
    \/ /\ matched = NoMatchCall
       /\ \E model \in ModelNames, mode \in SessionModes,
             priority \in BOOLEAN :
             \E lora \in SessionLoraDirs(mode) :
                enqueueSession(model, mode, lora, priority)
    \/ \E filter \in Filters : applyMatch(filter)

\* the queue alone: sessions are enqueued, then match is called on the
\* queue with any filter
SpecMatch == Init /\ [][NextMatch]_vars

\* ------------------------------------------ the supervisor and an instance
\* the seconds of inactivity after which an instance is stale
InstanceTimeout == 0

\* the runner whose supervisor owns the instance
ThisRunner == "runner1"

\* the session the instance is created for
InitialSession == 1

\* the error the supervisor reports when it could not create the instance
createInstanceErr == "error creating model instance"

\* the instance is in the instance map of its runner
InMap == insts[ThisRunner] # <<>>

\* stopProcess: "no process to stop" without a command; otherwise the kill
\* signal goes to the process group -Pid, which reads Process of the
\* command: nil when cmd.Start failed; a group that has exited gets nothing
stopProcess ==
    IF ~currentCommand
      THEN UNCHANGED <<killed, panicked>>
      ELSE IF procState = "failed"
             THEN panicked' = TRUE /\ UNCHANGED killed
             ELSE /\ killed' = (killed \/ procState = "running")
                  /\ UNCHANGED panicked

\* the instance's last activity is older than the timeout
Stale == now - lastActivityTimestamp > InstanceTimeout

\* the eviction policy: the instance is stale and has neither a running nor
\* a queued session
mayEvict ==
    /\ Stale
    /\ currentSession = NoSession
    /\ queuedSession = NoSession

\* mutant of superviseTick: the stale instance is stopped but stays in the
\* instance map
superviseTick_KeepInMap ==
    /\ ~panicked
    /\ InMap
    /\ procState \notin {"none", "failed"}
    /\ tickedAt # now
    /\ tickedAt' = now
    /\ IF mayEvict
         THEN stopProcess
         ELSE UNCHANGED <<killed, panicked>>
    /\ UNCHANGED <<slotVars, lastActivityTimestamp, forwarded, handed,
                   download, assigned, procVars, childVars, pipe,
                   handlerVars, now, peeked, cancelled, reported, stopResult,
                   schedVars, regVars, toolVars>>

\* a tick of the supervisor, one per clock value, between two creations of
\* instances: the eviction check stops a stale instance without running or
\* queued session and removes it from the instance map
superviseTick ==
    /\ ~panicked
    /\ InMap
    /\ procState \notin {"none", "failed"}
    /\ tickedAt # now
    /\ tickedAt' = now
    /\ IF mayEvict
         THEN /\ stopProcess
              /\ insts' = [insts EXCEPT ![ThisRunner] = <<>>]
         ELSE UNCHANGED <<killed, panicked, insts>>
    /\ UNCHANGED <<slotVars, lastActivityTimestamp, forwarded, handed,
                   download, assigned, procVars, childVars, pipe,
                   handlerVars, now, peeked, cancelled, reported, stopResult,
                   squeue, enqueued, qlock, pending, polled, matched, regVars, toolVars>>

\* the parent context of the instance is cancelled: the instance is stopped
cancelContext ==
    /\ ~panicked
    /\ InMap
    /\ procState \notin {"none", "failed"}
    /\ ~cancelled
    /\ cancelled' = TRUE
    /\ stopProcess
    /\ UNCHANGED <<slotVars, lastActivityTimestamp, forwarded, handed,
                   download, assigned, procVars, childVars, pipe,
                   handlerVars, now, peeked, reported, tickedAt, stopResult,
                   schedVars, regVars, toolVars>>

\* NewModelInstance returns nil and the error of model.GetModel: there is
\* no instance and no child process
NewModelInstanceFailed ==
    /\ ~panicked
    /\ procState = "none"
    /\ handed = 0
    /\ procState' = "failed"
    /\ UNCHANGED <<slotVars, lastActivityTimestamp, forwarded, handed,
                   download, assigned, currentCommand, exitErr, waitPc,
                   finishChan, childVars, pipe, handlerVars, panicked, now,
                   peeked, supVars, schedVars, regVars, toolVars>>

\* mutant of reportCreateError: the session goes back into the queue
reportCreateError_Requeue ==
    /\ ~panicked
    /\ procState = "failed"
    /\ ~reported
    /\ reported' = TRUE
    /\ responseHandler(
          RunnerTaskResponse(WorkerTaskResponseTypeResult, InitialSession,
                             OwnerOf(InitialSession), createInstanceErr,
                             TRUE, 0, "none", FALSE))
    /\ insts' = [insts EXCEPT ![ThisRunner] = <<>>]
    /\ squeue' = enqueue(squeue,
                    Session(InitialSession, insts[ThisRunner][1].model_name,
                            insts[ThisRunner][1].mode, "", FALSE, now))
    /\ UNCHANGED <<slotVars, lastActivityTimestamp, handed, download,
                   assigned, procVars, childVars, pipe, handlerVars,
                   panicked, now, peeked, killed, cancelled, tickedAt, stopResult,
                   enqueued, qlock, pending, polled, matched, regVars, toolVars>>

\* the creation of the instance failed: the supervisor reports the session
\* errored through the response callback, keeps no instance and does not
\* enqueue the session again
reportCreateError ==
    /\ ~panicked
    /\ procState = "failed"
    /\ ~reported
    /\ reported' = TRUE
    /\ responseHandler(
          RunnerTaskResponse(WorkerTaskResponseTypeResult, InitialSession,
                             OwnerOf(InitialSession), createInstanceErr,
                             TRUE, 0, "none", FALSE))
    /\ insts' = [insts EXCEPT ![ThisRunner] = <<>>]
    /\ UNCHANGED <<slotVars, lastActivityTimestamp, handed, download,
                   assigned, procVars, childVars, pipe, handlerVars,
                   panicked, now, peeked, killed, cancelled, tickedAt, stopResult,
                   squeue, enqueued, qlock, pending, polled, matched, regVars, toolVars>>

\* the instance is in the instance map of its runner from its creation on
InitSupervisor ==
    /\ InstanceInit
    /\ QueueInit
    /\ RegistryInit
    /\ ToolsInit
    /\ insts \in {f \in [Runners -> InitialInstances] :
                     /\ f[ThisRunner] # <<>>
                     /\ f[ThisRunner][1].lora_dir = LORA_DIR_NONE
                     /\ \A r \in Runners \ {ThisRunner} : f[r] = <<>>}

NextSupervisor ==
    \/ InMap /\ procState # "failed" /\ queueSession
    \/ \E s \in Sessions : queueSessionFailed(s)
    \/ \E s \in Sessions : queueSessionPrepared(s)
    \/ ~killed /\ \E taskOk \in BOOLEAN : popNextTask(taskOk)
    \/ \E outcome \in {"nocmd", "startfail", "ok"} : startProcess(outcome)
    \/ NewModelInstanceFailed
    \/ reportCreateError
    \/ ~killed /\ childResult
    \/ \E err \in BOOLEAN : (killed => err) /\ childExit(err)
    \/ waitErrorSession
    \/ waitFinish
    \/ \E h \in Streams : trhNilCheck(h)
    \/ \E h \in Streams : trhIdCheck(h)
    \/ \E h \in Streams, ok \in BOOLEAN : trhUpload(h, ok)
    \/ \E h \in Streams : trhForward(h)
    \/ Tick
    \/ superviseTick
    \/ cancelContext

\* one instance and the supervisor of its runner: creation, the ticks with
\* their eviction check, cancellation
SpecSupervisor == InitSupervisor /\ [][NextSupervisor]_vars

\* what a call of stopProcess returns: NotStopped when it does not return
stopProcessResult(err) ==
    IF ~currentCommand
      THEN noProcessErr
      ELSE IF procState = "failed"
             THEN NotStopped
             ELSE IF procState = "running" THEN NoError ELSE err

\* stopProcess is called on the instance, whatever state it is in
callStopProcess(err) ==
    /\ ~panicked
    /\ stopResult = NotStopped
    /\ err \in {NoError, killErr}
    /\ stopProcess
    /\ stopResult' = stopProcessResult(err)
    /\ UNCHANGED <<slotVars, lastActivityTimestamp, forwarded, handed,
                   download, assigned, procVars, childVars, pipe,
                   handlerVars, now, peeked, cancelled, reported, tickedAt,
                   schedVars, regVars, toolVars>>

NextStop ==
    \/ queueSession
    \/ \E s \in Sessions : queueSessionFailed(s)
    \/ \E s \in Sessions : queueSessionPrepared(s)
    \/ ~killed /\ \E taskOk \in BOOLEAN : popNextTask(taskOk)
    \/ \E outcome \in {"nocmd", "startfail", "ok"} : startProcess(outcome)
    \/ ~killed /\ childResult
    \/ \E err \in BOOLEAN : (killed => err) /\ childExit(err)
    \/ waitErrorSession
    \/ waitFinish
    \/ \E h \in Streams : trhNilCheck(h)
    \/ \E h \in Streams : trhIdCheck(h)
    \/ \E h \in Streams, ok \in BOOLEAN : trhUpload(h, ok)
    \/ \E h \in Streams : trhForward(h)
    \/ \E err \in {NoError, killErr} : callStopProcess(err)

\* one instance on which stopProcess is called once, at any moment
SpecStop == Init /\ [][NextStop]_vars

\* ---- GetLowestMemoryRequirement over any registry ----

\* one iteration of the loop: a model not visited yet, in any order (the
\* models are the entries of a map), its finetune requirement first
visitModel(m) ==
    /\ m \in toVisit
    /\ lowestMemoryRequirement' =
           lowerRequirement(
               lowerRequirement(lowestMemoryRequirement,
                                registry[m][SessionModeFinetune]),
               registry[m][SessionModeInference])
    /\ toVisit' = toVisit \ {m}
    /\ UNCHANGED <<registry, instanceVars, now, peeked, supVars, schedVars, toolVars>>

\* any requirement, zero included, for every model and mode
InitLowest ==
    /\ InstanceInit
    /\ QueueInit
    /\ ToolsInit
    /\ insts = [r \in Runners |-> <<>>]
    /\ registry \in [ModelNames -> [SessionModes -> 0 .. MaxRequirement]]
    /\ toVisit = ModelNames
    /\ lowestMemoryRequirement = 0

NextLowest == \E m \in ModelNames : visitModel(m)

SpecLowest == InitLowest /\ [][NextLowest]_vars

\* ---- the tools handlers ----

\* what is left alone by the tools handlers
notTools == <<instanceVars, now, peeked, supVars, schedVars, regVars>>

\* Store.ListTools for an owner: the rows of that owner and owner type
ListTools(owner, ownerType) ==
    {tools[id] : id \in {i \in ToolIDs :
                            /\ tools[i] # NoTool
                            /\ tools[i].owner = owner
                            /\ tools[i].owner_type = ownerType}}

\* a handler returns
respond(c, id, status) ==
    /\ toolResponse' = [id |-> id, status |-> status]
    /\ toolRequests' = [toolRequests EXCEPT ![c] = NoRequest]

\* the creations that have read the store and not written yet
creating == {c \in Connections : toolRequests[c].kind = "create"}

\* createTool up to the test of the name: the body is decoded, the tools
\* of the caller are read, and an invalid tool and a name the caller has
\* already are refused
createToolList(c, user, body) ==
    /\ toolRequests[c] = NoRequest
    /\ created + Cardinality(creating) < MaxTools
    /\ LET userContext == getRequestContext(user)
           existingTools == ListTools(userContext.Owner,
                                      userContext.OwnerType)
           tool == [body EXCEPT !.owner = userContext.Owner,
                                !.owner_type = userContext.OwnerType]
       IN  IF ~validateTool(tool)
             THEN respond(c, 0, StatusBadRequest)
             ELSE IF \E t \in existingTools : t.name = tool.name
               THEN respond(c, 0, StatusBadRequest)
               ELSE /\ toolRequests' = [toolRequests EXCEPT ![c] =
                           [kind |-> "create", user |-> user, id |-> 0,
                            tool |-> tool]]
                    /\ UNCHANGED toolResponse
    /\ UNCHANGED <<tools, created>>
    /\ UNCHANGED notTools

\* createTool from Store.CreateTool on: the tool is stored under a new ID
createToolStore(c) ==
    /\ toolRequests[c].kind = "create"
    /\ LET req == toolRequests[c]
       IN  /\ created' = created + 1
           /\ tools' = [tools EXCEPT ![created + 1] =
                  [id |-> created + 1, owner |-> req.tool.owner,
                   owner_type |-> req.tool.owner_type,
                   name |-> req.tool.name,
                   tool_type |-> req.tool.tool_type]]
           /\ respond(c, created + 1, StatusOK)
    /\ UNCHANGED notTools

\* updateTool up to the ownership test: an invalid body is refused, then
\* a missing row and a row of another owner are answered alike
updateToolGet(c, user, id, body) ==
    /\ toolRequests[c] = NoRequest
    /\ LET userContext == getRequestContext(user)
           existing == tools[id]
       IN  IF ~validateTool(body)
             THEN respond(c, id, StatusBadRequest)
             ELSE IF existing = NoTool
               THEN respond(c, id, StatusNotFound)
               ELSE IF existing.owner # userContext.Owner
                 THEN respond(c, id, StatusNotFound)
                 ELSE /\ toolRequests' = [toolRequests EXCEPT ![c] =
                             [kind |-> "update", user |-> user, id |-> id,
                              tool |-> updatedTool(body, id, existing)]]
                      /\ UNCHANGED toolResponse
    /\ UNCHANGED <<tools, created>>
    /\ UNCHANGED notTools

\* updateTool from Store.UpdateTool on: the row is written; when the row
\* is gone by now the store either writes it anew or fails
updateToolStore(c, saved) ==
    /\ toolRequests[c].kind = "update"
    /\ LET req == toolRequests[c]
       IN  /\ tools[req.id] # NoTool => saved
           /\ IF saved
                 THEN /\ tools' = [tools EXCEPT ![req.id] = req.tool]
                      /\ respond(c, req.id, StatusOK)
                 ELSE /\ UNCHANGED tools
                      /\ respond(c, req.id,
                                 StatusInternalServerError)
    /\ UNCHANGED created
    /\ UNCHANGED notTools

\* deleteTool up to the ownership test
deleteToolGet(c, user, id) ==
    /\ toolRequests[c] = NoRequest
    /\ LET userContext == getRequestContext(user)
           existing == tools[id]
       IN  IF existing = NoTool
             THEN respond(c, id, StatusNotFound)
             ELSE IF existing.owner # userContext.Owner
               THEN respond(c, id, StatusNotFound)
               ELSE /\ toolRequests' = [toolRequests EXCEPT ![c] =
                           [kind |-> "delete", user |-> user, id |-> id]]
                    /\ UNCHANGED toolResponse
    /\ UNCHANGED <<tools, created>>
    /\ UNCHANGED notTools

\* deleteTool from Store.DeleteTool on: the row is removed
deleteToolStore(c) ==
    /\ toolRequests[c].kind = "delete"
    /\ LET req == toolRequests[c]
       IN  /\ tools' = [tools EXCEPT ![req.id] = NoTool]
           /\ respond(c, req.id, StatusOK)
    /\ UNCHANGED created
    /\ UNCHANGED notTools

NextTools ==
    \E c \in Connections :
        \/ \E user \in Users, body \in ToolBodies :
               createToolList(c, user, body)
        \/ createToolStore(c)
        \/ \E user \in Users, id \in ToolIDs, body \in ToolBodies :
               updateToolGet(c, user, id, body)
        \/ \E saved \in BOOLEAN : updateToolStore(c, saved)
        \/ \E user \in Users, id \in ToolIDs : deleteToolGet(c, user, id)
        \/ deleteToolStore(c)

\* the tools API under any requests of two users on two connections
SpecTools == Init /\ [][NextTools]_vars

\* the same with the scheduling the runtime gives: a child that got the
\* kill signal exits, and the Wait goroutine takes its steps
SpecSupervisorFair ==
    /\ SpecSupervisor
    /\ WF_vars(killed /\ childExit(TRUE))
    /\ WF_vars(waitErrorSession)
    /\ WF_vars(waitFinish)

\* ================================================================= claims
\* the positions of forwarded
Forwarded == DOMAIN forwarded

\* a response of type result: a child's result or an error response
IsTerminal(r) == r.type = WorkerTaskResponseTypeResult

\* a response the child emitted (not one built by errorSession)
FromChild(r) == r.seq > 0

\* session a was passed to assignSessionTask before session b
RanBefore(a, b) ==
    \E i, j \in DOMAIN assigned : i < j /\ assigned[i] = a /\ assigned[j] = b

\* nothing more can happen for the sessions handed so far: the child has
\* exited, the Wait goroutine has finished, both text streams are drained
\* and no download is pending
Quiescent ==
    /\ ~panicked
    /\ procState = "exited"
    /\ waitPc = "done"
    /\ \A h \in Streams : pipe[h] = <<>> /\ handlerPc[h] = "idle"
    /\ \A s \in Sessions : download[s] # "pending"

\* C1: for every session, at most one terminal response (type result, from
\* the child or from errorSession) reaches the response handler, and no
\* response carrying the session's ID is forwarded after it.
C1_SingleTerminalResponse ==
    \A i, j \in Forwarded :
        (i < j /\ IsTerminal(forwarded[i]))
            => forwarded[j].sid # forwarded[i].sid

\* C2: every session that reached the instance has had a terminal response
\* forwarded once the child has exited and every goroutine of the instance
\* has run to its end.
C2_EverySessionTerminated ==
    Quiescent =>
        \A s \in 1 .. handed :
            \E i \in Forwarded :
                forwarded[i].sid = s /\ IsTerminal(forwarded[i])

C4_NoPreemption ==
    [][(currentSession # NoSession /\ currentSession' # NoSession)
          => currentSession' = currentSession]_vars

\* the handler of stream h takes a response from its text stream
Takes(h) == pipe'[h] # pipe[h] /\ Len(pipe'[h]) < Len(pipe[h])

\* the handler of stream h drops the response it holds or takes
Drops(h) ==
    /\ handlerPc'[h] = "idle"
    /\ handling'[h] = NoResponse
    /\ forwarded' = forwarded

\* C5: a task response that is handled while the instance has no current
\* session, or whose session ID differs from the current session's at the
\* ID test, is dropped: it leaves the handler without being forwarded.
C5_MismatchDropped ==
    [][\A h \in Streams :
         /\ (Takes(h) /\ currentSession = NoSession) => Drops(h)
         /\ (/\ handlerPc[h] = "idcheck"
             /\ handlerPc'[h] # "idcheck"
             /\ currentSession # handling[h].sid) => Drops(h)]_vars

\* C5 witness: a response of an earlier session is at the ID test while
\* another session is current.
C5_Witness ==
    \E h \in Streams :
        /\ handlerPc[h] = "idcheck"
        /\ currentSession # NoSession
        /\ currentSession # handling[h].sid

\* C6: a result of the current session is uploaded before it is forwarded,
\* and the step that ends the upload clears the current session.
C6_UploadThenForwardAndClear ==
    /\ [](\A i \in Forwarded :
            (IsTerminal(forwarded[i]) /\ FromChild(forwarded[i]))
                => forwarded[i].uploaded)
    /\ [][\A h \in Streams :
            (handlerPc[h] = "upload" /\ handlerPc'[h] # "upload")
                => currentSession' = NoSession]_vars

\* C6 witness: an uploaded result has been forwarded and the instance is idle.
C6_Witness ==
    /\ currentSession = NoSession
    /\ \E i \in Forwarded :
          /\ IsTerminal(forwarded[i])
          /\ FromChild(forwarded[i])
          /\ forwarded[i].uploaded

\* C7: for sessions S1 then S2 run one after the other, no response of S2
\* is forwarded before the result of S1.
C7_ResultBeforeNextSession ==
    \A i, j \in Forwarded :
        (/\ i < j
         /\ IsTerminal(forwarded[j])
         /\ RanBefore(forwarded[j].sid, forwarded[i].sid)) => FALSE

C9_Prefetch ==
    /\ [](\A s \in Sessions : download[s] = "pending" => nextSession # s)
    /\ [][/\ handed' # handed =>
               /\ queuedSession' = handed'
               /\ nextSession' = NoSession
               /\ download'[handed'] = "pending"
               /\ currentSession' = currentSession
          /\ \A s \in Sessions :
               (download[s] = "pending" /\ download'[s] = "prepared") =>
                   /\ nextSession' = s
                   /\ queuedSession' = NoSession
                   /\ currentSession' = currentSession]_vars

\* C9 witness: a session has been prefetched into next while another
\* session is current (and is still the child's task).
C9_Witness ==
    /\ nextSession # NoSession
    /\ download[nextSession] = "prepared"
    /\ currentSession # NoSession
    /\ childTask = currentSession

\* the error responses forwarded for session s
ErrorResponses(s) ==
    {i \in Forwarded : forwarded[i].sid = s /\ forwarded[i].error # NoError}

\* C10: a failed download clears queued and next, emits one error response
\* of type result with the session's ID, leaves current alone and is not
\* retried; the session gets no other error response.
C10_PrefetchFailure ==
    /\ [](\A s \in Sessions :
            download[s] = "failed" => Cardinality(ErrorResponses(s)) = 1)
    /\ [][\A s \in Sessions :
            /\ (download[s] = "pending" /\ download'[s] = "failed") =>
                  /\ queuedSession' = NoSession
                  /\ nextSession' = NoSession
                  /\ currentSession' = currentSession
                  /\ Len(forwarded') = Len(forwarded) + 1
                  /\ forwarded'[Len(forwarded')].sid = s
                  /\ forwarded'[Len(forwarded')].error # NoError
                  /\ IsTerminal(forwarded'[Len(forwarded')])
            /\ download[s] = "failed" => download'[s] = "failed"]_vars

\* C10 witness: a download has failed while another session was current.
C10_Witness ==
    \E s \in Sessions :
        /\ download[s] = "failed"
        /\ currentSession # NoSession
        /\ currentSession # s

\* C11: every error response an instance reports for a session is of type
\* result and has its done flag set.
C11_ErrorResponseDone ==
    \A i \in Forwarded :
        forwarded[i].error # NoError
            => IsTerminal(forwarded[i]) /\ forwarded[i].done

\* the Wait goroutine passes instance.errorSession(instance.currentSession,
\* err)
WaitReports == waitPc = "error" /\ waitPc' = "finish"

\* C12: when the child exits with an error while a session is current, the
\* Wait goroutine emits one error response for the current session: the
\* session it found at its nil test is still in the slot when errorSession
\* reads it, and the response carries that session's ID; when the child
\* exits with no current session, or without an error, the goroutine emits
\* nothing.
C12_ExitErrorReported ==
    /\ [](waitPc = "error" => currentSession # NoSession)
    /\ [][/\ (procState = "running" /\ procState' = "exited") =>
                /\ forwarded' = forwarded
                /\ waitPc' = IF exitErr' /\ currentSession # NoSession
                               THEN "error" ELSE "finish"
          /\ WaitReports =>
                forwarded' = Append(forwarded,
                                    errorSession(currentSession, cmdWaitErr))
          /\ (waitPc = "finish" /\ waitPc' = "done") =>
                forwarded' = forwarded]_vars

\* C13: the error response the Wait goroutine emits on a non-zero exit
\* carries the retained tail of the child's stderr in its error field.
C13_ErrorCarriesStderr ==
    [][WaitReports =>
          forwarded'[Len(forwarded')].error = stderrBuf]_vars

\* a step in which a session is passed to assignSessionTask
Assigns == Len(assigned') # Len(assigned)

QueuedIds == {squeue[i].id : i \in DOMAIN squeue}

\* C16: no session is returned to two pollers: a session is returned by at
\* most one poll, the poll that returns it removes it from the queue in the
\* step that releases the mutex, and while a poll holds the mutex between
\* its match and its remove no other poll is in flight and the queue does
\* not change.
C16_NoDoubleDelivery ==
    /\ [](\A s \in 1 .. MaxQueued :
            /\ Len(polled[s]) <= 1
            /\ polled[s] # <<>> => s \notin QueuedIds)
    /\ [](\A r \in Runners : pending[r] # NoPoll => qlock = r)
    /\ [][/\ qlock # NoRunner /\ qlock' = qlock => squeue' = squeue
          /\ \A s \in 1 .. MaxQueued :
               polled'[s] # polled[s] =>
                  /\ qlock # NoRunner
                  /\ pending[qlock].session.id = s
                  /\ polled'[s] = <<qlock>>
                  /\ s \in QueuedIds
                  /\ squeue' = remove(squeue, s)
                  /\ qlock' = NoRunner]_vars

\* C16 witness: each of the two runners has been returned a session.
C16_Witness ==
    \E s1, s2 \in 1 .. MaxQueued :
        polled[s1] = <<"runner1">> /\ polled[s2] = <<"runner2">>

\* the sessions of queue q that satisfy every clause of the filter predicate
\* for filter f at time t, each clause written out
Satisfying(q, f, t) ==
    {i \in DOMAIN q :
        /\ f.mode \in {"", q[i].mode}
        /\ f.type \in {"", q[i].type}
        /\ f.model_name \in {"", q[i].model_name}
        /\ \/ f.lora_dir = ""
           \/ f.lora_dir = LORA_DIR_NONE /\ q[i].lora_dir \in {"", LORA_DIR_NONE}
           \/ f.lora_dir # LORA_DIR_NONE /\ q[i].lora_dir = f.lora_dir
        /\ GetMemoryRequirements(q[i].model_name, q[i].mode) <= f.memory
        /\ <<q[i].model_name, q[i].mode>> \notin f.reject
        /\ t - q[i].created >= f.older}

\* session a ranks strictly before session b: priority bit descending, then
\* created timestamp ascending
RanksBefore(a, b) ==
    \/ a.priority /\ ~b.priority
    \/ a.priority = b.priority /\ a.created < b.created

\* C17: match returns none exactly when no queued session satisfies the
\* filter, and otherwise a queued session that satisfies every clause and
\* before which no other satisfying session ranks.
C17_MatchMinimal ==
    LET sat == Satisfying(squeue, matched.filter, queueClock)
    IN  /\ matched.result = NoQueuedSession <=> sat = {}
        /\ matched.result # NoQueuedSession =>
              \E i \in sat :
                 /\ squeue[i] = matched.result
                 /\ \A j \in sat : ~RanksBefore(squeue[j], squeue[i])

\* C17 witness: match has returned a session that is not at the head of the
\* queue, skipping a priority session that was enqueued later, ranks before
\* it and does not satisfy the filter.
C17_Witness ==
    /\ matched.result # NoQueuedSession
    /\ Len(squeue) > 1
    /\ squeue[2] = matched.result
    /\ RanksBefore(squeue[1], squeue[2])
    /\ squeue[1].id > squeue[2].id
    /\ 1 \notin Satisfying(squeue, matched.filter, queueClock)

\* the lora_dir clause as claimed, for a filter value f and a session value l
LoraDirClause(f, l) ==
    IF f = "" THEN TRUE
    ELSE IF f = LORA_DIR_NONE THEN l \in {"", LORA_DIR_NONE}
    ELSE l = f

\* the clauses of the filter predicate other than the lora_dir clause
OtherClauses(s, f, t) ==
    /\ f.mode \in {"", s.mode}
    /\ f.type \in {"", s.type}
    /\ f.model_name \in {"", s.model_name}
    /\ GetMemoryRequirements(s.model_name, s.mode) <= f.memory
    /\ <<s.model_name, s.mode>> \notin f.reject
    /\ t - s.created >= f.older

\* C18: a queued session satisfies the filter predicate exactly when it
\* satisfies the other clauses and the lora_dir clause as claimed (an empty
\* filter value matches all, LORA_DIR_NONE matches empty or LORA_DIR_NONE,
\* any other value matches the identical string); so a session match
\* returns satisfies the clause, and when match returns none no session
\* that passes the other clauses satisfies it.
C18_LoraDirClause ==
    /\ \A i \in DOMAIN squeue :
          matches(squeue[i], matched.filter, queueClock)
             <=> /\ OtherClauses(squeue[i], matched.filter, queueClock)
                 /\ LoraDirClause(matched.filter.lora_dir, squeue[i].lora_dir)
    /\ matched.result # NoQueuedSession =>
          LoraDirClause(matched.filter.lora_dir, matched.result.lora_dir)
    /\ (matched # NoMatchCall /\ matched.result = NoQueuedSession) =>
          \A i \in DOMAIN squeue :
             OtherClauses(squeue[i], matched.filter, queueClock) =>
                ~LoraDirClause(matched.filter.lora_dir, squeue[i].lora_dir)

\* C18 witness: a filter asking for LORA_DIR_NONE has been answered with a
\* session whose lora_dir is empty, passing over a session that names a
\* fine-tune artifact.
C18_Witness ==
    /\ matched.filter.lora_dir = LORA_DIR_NONE
    /\ matched.result # NoQueuedSession
    /\ matched.result.lora_dir = ""
    /\ squeue[1].lora_dir = "lora1"

\* session s is one that instance inst is pinned to: its model and mode,
\* and its lora_dir under the lora_dir rule
FitsInstance(s, inst) ==
    /\ s.model_name = inst.model_name
    /\ s.mode = inst.mode
    /\ IF inst.lora_dir = LORA_DIR_NONE
         THEN s.lora_dir \in {"", LORA_DIR_NONE}
         ELSE s.lora_dir = inst.lora_dir

\* the idle instances of runner r for which a fitting session is queued
WarmInstances(r) ==
    {i \in DOMAIN insts[r] :
        /\ IsIdle(insts[r][i])
        /\ \E k \in DOMAIN squeue : FitsInstance(squeue[k], insts[r][i])}

\* runner r's poll runs its match in this step
Polls(r) == pending[r] = NoPoll /\ pending'[r] # NoPoll

\* runner r's poll returns in this step
Returns(r) == pending[r] # NoPoll /\ pending'[r] = NoPoll

\* C19: when a queued session fits an idle instance of the polling runner,
\* the poll returns a queued session that fits an idle instance, found by
\* the warm phase, whatever ranks before it in the queue; the cold phase
\* answers only when no queued session fits any idle instance; a session
\* found by the warm phase goes to that instance and a session found by the
\* cold phase goes to a new instance, every other instance of the runner
\* staying as it was.
C19_WarmBeforeCold ==
    [][\A r \in Runners :
         /\ Polls(r) =>
              IF WarmInstances(r) # {}
                THEN /\ pending'[r].phase = "warm"
                     /\ pending'[r].inst \in WarmInstances(r)
                     /\ pending'[r].session.id \in QueuedIds
                     /\ FitsInstance(pending'[r].session,
                                     insts[r][pending'[r].inst])
                ELSE pending'[r].phase \in {"cold", "none"}
         /\ (Returns(r) /\ pending[r].phase = "warm") =>
              /\ Len(insts'[r]) = Len(insts[r])
              /\ insts'[r][pending[r].inst].session = pending[r].session.id
              /\ \A i \in DOMAIN insts[r] :
                   i # pending[r].inst => insts'[r][i] = insts[r][i]
         /\ (Returns(r) /\ pending[r].phase = "cold") =>
              /\ Len(insts'[r]) = Len(insts[r]) + 1
              /\ insts'[r][Len(insts'[r])].session = pending[r].session.id
              /\ insts'[r][Len(insts'[r])].model_name
                   = pending[r].session.model_name
              /\ \A i \in DOMAIN insts[r] : insts'[r][i] = insts[r][i]]_vars

\* C19 witness: the warm phase has found a session for an idle instance
\* although a session of another model ranks before it in the queue.
C19_Witness ==
    \E r \in Runners :
        /\ pending[r].phase = "warm"
        /\ Len(squeue) > 1
        /\ squeue[2] = pending[r].session
        /\ squeue[1].model_name # squeue[2].model_name
        /\ GetMemoryRequirements(squeue[1].model_name, squeue[1].mode)
              <= freeMemory(insts[r])

\* the (model, mode) pairs of the instances of runner r that have a session
BusyPairs(r) ==
    {<<insts[r][i].model_name, insts[r][i].mode>> :
        i \in {j \in DOMAIN insts[r] : insts[r][j].session # NoSession}}

\* C20: the session a poll matches is not in the reject list of the filter
\* that matched it; the broad filter's reject list holds the (model, mode)
\* of every instance of the runner that is not idle, so a session found by
\* the cold phase, and the instance created for it, never has the (model,
\* mode) of an instance that is busy.
C20_RejectList ==
    [][\A r \in Runners :
         /\ Polls(r) =>
              /\ broadFilter(insts[r]).reject = BusyPairs(r)
              /\ \A i \in DOMAIN insts[r] :
                   narrowFilter(insts[r][i]).reject = {}
              /\ pending'[r].phase = "cold" =>
                   <<pending'[r].session.model_name,
                     pending'[r].session.mode>> \notin BusyPairs(r)
         /\ (Returns(r) /\ Len(insts'[r]) > Len(insts[r])) =>
              <<insts'[r][Len(insts'[r])].model_name,
                insts'[r][Len(insts'[r])].mode>> \notin BusyPairs(r)]_vars

\* C20 witness: a poll has returned nothing although a session is queued
\* that would fit in the runner's free memory: its (model, mode) is that of
\* a busy instance.
C20_Witness ==
    \E r \in Runners :
        /\ pending[r].phase = "none"
        /\ squeue # <<>>
        /\ \A k \in DOMAIN squeue :
              /\ GetMemoryRequirements(squeue[k].model_name, squeue[k].mode)
                    <= freeMemory(insts[r])
              /\ <<squeue[k].model_name, squeue[k].mode>> \in BusyPairs(r)

\* the footprints of the known models in their modes
Footprints ==
    {GetMemoryRequirements(m, mode) : m \in ModelNames, mode \in SessionModes}

\* the lowest known model footprint
LowestFootprint == CHOOSE x \in Footprints : \A y \in Footprints : x <= y

\* the sessions that were delivered to runner r
DeliveredTo(r) ==
    {sid \in DOMAIN polled : \E k \in DOMAIN polled[sid] : polled[sid][k] = r}

\* C21: GetLowestMemoryRequirement is the lowest known model footprint, and
\* in a step taken while the free memory of a runner is below it the
\* runner's supervisor starts no poll: no session is matched for the
\* runner, none is delivered to it, the queue loses no session to it and
\* its instances keep their sessions.
C21_NoPollWhenFull ==
    [][\A r \in Runners :
         freeMemory(insts[r]) < LowestFootprint =>
            /\ GetLowestMemoryRequirement = LowestFootprint
            /\ pending[r] = NoPoll
            /\ pending'[r] = NoPoll
            /\ qlock' # r
            /\ DeliveredTo(r)' = DeliveredTo(r)
            /\ Len(insts'[r]) = Len(insts[r])
            /\ \A i \in DOMAIN insts[r] :
                 insts[r][i].session = NoSession =>
                    insts'[r][i].session = NoSession]_vars

\* C21 witness: the free memory of a runner is below the lowest footprint
\* while the runner has an idle instance and a session that fits this
\* instance is queued; no poll of the runner is in flight.
C21_Witness ==
    \E r \in Runners :
        /\ freeMemory(insts[r]) < LowestFootprint
        /\ pending[r] = NoPoll
        /\ WarmInstances(r) # {}

\* the footprint of an instance
Footprint(inst) == GetMemoryRequirements(inst.model_name, inst.mode)

\* runner r gets a new instance in this step
Creates(r) == Len(insts'[r]) > Len(insts[r])

\* C22: the footprints of the instances of a runner never add up to more
\* than its total memory, in particular when an instance is created, the new
\* one counted; a step that creates an instance appends it and leaves every
\* instance the runner had, running or idle, in place as it was, and no
\* step of the control plane removes an instance.
C22_MemoryBound ==
    /\ [](\A r \in Runners : usedMemory(insts[r]) <= TotalMemory)
    /\ [][\A r \in Runners :
            /\ Len(insts'[r]) >= Len(insts[r])
            /\ Creates(r) =>
                 /\ Len(insts'[r]) = Len(insts[r]) + 1
                 /\ usedMemory(insts[r]) + Footprint(insts'[r][Len(insts'[r])])
                       <= TotalMemory
                 /\ \A i \in DOMAIN insts[r] : insts'[r][i] = insts[r][i]]_vars

\* C22 witness: a runner whose first instance is running a session has got
\* a second instance, and the two footprints fill its memory.
C22_Witness ==
    \E r \in Runners :
        /\ Len(insts[r]) = 2
        /\ insts[r][1].session # NoSession
        /\ insts[r][2].session # NoSession
        /\ usedMemory(insts[r]) = TotalMemory

\* the supervisor's eviction check runs in this step
SuperviseTicks == tickedAt' # tickedAt

\* the session handed to the instance last, the one queueSession stored as
\* queued, is still downloading its files
QueuedDownloading == handed > 0 /\ download[handed] = "pending"

\* C23: a tick of the supervisor neither stops nor removes an instance that
\* has a current session, or a queued session whose files are still
\* downloading, however old the last-activity timestamp is.
C23_EvictionSparesBusy ==
    [][(SuperviseTicks /\ (currentSession # NoSession \/ QueuedDownloading))
          => /\ insts' = insts
             /\ killed' = killed]_vars

\* C24: a tick of the supervisor that finds the instance in the instance
\* map with a last-activity timestamp older than the instance timeout, no
\* current and no queued session removes it from the map, so that its
\* footprint is free memory of the runner again, and stops it: a child that
\* is running gets the kill signal.
C24_StaleIdleEvicted ==
    [][(/\ SuperviseTicks
        /\ InMap
        /\ now - lastActivityTimestamp > InstanceTimeout
        /\ currentSession = NoSession
        /\ queuedSession = NoSession)
          => /\ ~InMap'
             /\ freeMemory(insts'[ThisRunner])
                  = freeMemory(insts[ThisRunner])
                      + Footprint(insts[ThisRunner][1])
             /\ freeMemory(insts'[ThisRunner]) = TotalMemory
             /\ procState = "running" => killed']_vars

\* C24 witness: the instance has run session 1 to its result, stayed idle
\* past the timeout and was evicted by a tick: it is out of the map and its
\* child has got the kill signal.
C24_Witness ==
    /\ ~InMap
    /\ killed
    /\ ~cancelled
    /\ tickedAt = now
    /\ currentSession = NoSession
    /\ \E i \in Forwarded :
          /\ forwarded[i].sid = 1
          /\ forwarded[i].type = WorkerTaskResponseTypeResult
          /\ forwarded[i].error = NoError

\* the creation of the instance fails in this step: NewModelInstance or
\* startProcess returns an error
CreationFails == procState # "failed" /\ procState' = "failed"

\* C25: when the creation of the instance fails (unknown model, no command,
\* child not started) the failing call itself forwards nothing; the
\* supervisor then reports the initial session errored through the response
\* handler, once, with a terminal response that carries an error, and
\* neither then nor later is the session in the queue again; the report is
\* never held up.
C25_CreateErrorReported ==
    /\ [](procState = "failed" =>
             /\ reported \/ ENABLED reportCreateError
             /\ InitialSession \notin QueuedIds)
    /\ [](reported =>
             \E i \in Forwarded :
                 /\ forwarded[i].sid = InitialSession
                 /\ IsTerminal(forwarded[i])
                 /\ forwarded[i].error = createInstanceErr)
    /\ [][/\ CreationFails => forwarded' = forwarded
          /\ (~reported /\ reported') =>
                /\ procState = "failed"
                /\ Len(forwarded') = Len(forwarded) + 1
                /\ forwarded'[Len(forwarded')].sid = InitialSession
                /\ forwarded'[Len(forwarded')].error # NoError
                /\ squeue' = squeue
                /\ enqueued' = enqueued]_vars

\* C25 witness: the child of the instance failed to start while the initial
\* session was downloading, and the supervisor has reported the session.
C25_Witness ==
    /\ reported
    /\ currentCommand
    /\ procState = "failed"
    /\ queuedSession = InitialSession
    /\ squeue = <<>>

\* session s is being prepared: its files are downloading
Preparing(s) == download[s] = "pending"

\* session s is running on the instance or waits in it for the hand-off to
\* the child; a result of s that a handler is uploading or forwarding still
\* counts as running
OnInstance(s) ==
    \/ currentSession = s
    \/ nextSession = s
    \/ \E h \in Streams :
          /\ handlerPc[h] \in {"upload", "forward"}
          /\ handling[h].sid = s
          /\ IsTerminal(handling[h])

\* session s is terminated: a terminal response for it was forwarded
Terminated(s) ==
    \E i \in Forwarded : forwarded[i].sid = s /\ IsTerminal(forwarded[i])

\* C26: every session that left the queue for the instance is in exactly
\* one place: being prepared, running or awaiting hand-off on the instance,
\* or terminated; it is never in two of them and never in none.
C26_SessionInOnePlace ==
    \A s \in 1 .. handed :
        /\ Preparing(s) \/ OnInstance(s) \/ Terminated(s)
        /\ ~(Preparing(s) /\ OnInstance(s))
        /\ ~(Preparing(s) /\ Terminated(s))
        /\ ~(OnInstance(s) /\ Terminated(s))

\* C27: when the parent context of the instance is cancelled while its child
\* is running, the child's process group gets the kill signal and the
\* instance eventually reaches stopped: the Wait goroutine signals the exit
\* to the supervisor on finishChan.
C27_CancelStops ==
    /\ [][(cancelled' /\ ~cancelled /\ procState = "running") => killed']_vars
    /\ (cancelled /\ killed) ~> (waitPc = "done" /\ finishChan = 1)

\* C28: the slots are read and written atomically: the current session a
\* handler or the Wait goroutine found at its nil test is still in the slot
\* when it uses it, so no goroutine ever dereferences a slot that another
\* one has cleared in between.
C28_SlotsAtomic ==
    /\ \A h \in Streams :
          handlerPc[h] = "idcheck" => currentSession # NoSession
    /\ waitPc = "error" => currentSession # NoSession
    /\ ~panicked

\* the sessions that have been the current session
WasCurrent == {assigned[k] : k \in DOMAIN assigned}

\* C29: every response forwarded for a session that was current carries
\* that session's ID together with its owner.
C29_ResponseCarriesOwner ==
    \A i \in Forwarded :
        forwarded[i].sid \in WasCurrent =>
            forwarded[i].owner = OwnerOf(forwarded[i].sid)

\* the download of session s ends in this step, with or without an error
DownloadEnds(s) == download[s] = "pending" /\ download'[s] # "pending"

\* C30: a session handed to the instance while another one is downloading
\* takes its place in the queued slot, and when the download of a session
\* that is no longer the queued one ends, the queued and the next slot stay
\* as they are: the replaced session is not promoted to next and the
\* session that replaced it stays queued.
C30_ReplacedSessionIgnored ==
    [][/\ handed' # handed => queuedSession' = handed'
       /\ \A s \in Sessions :
            (DownloadEnds(s) /\ queuedSession # s) =>
                /\ queuedSession' = queuedSession
                /\ nextSession' = nextSession]_vars

\* C31: a child that was started gets exactly one finish signal on
\* finishChan when it exits, whatever its exit status and whether or not a
\* session is current: none before the exit or when startProcess failed,
\* never a second one (the buffer of one never blocks the Wait goroutine),
\* and the runner does not end after the exit with the signal still unsent.
C31_OneFinishSignal ==
    /\ finishChan <= 1
    /\ procState \in {"none", "failed", "running"} => finishChan = 0
    /\ finishChan = 1 <=> waitPc = "done"
    /\ (procState = "exited" /\ panicked) => finishChan = 1

\* C32: the first session that becomes the current session of the instance
\* is the initial session, and a session becomes current only in a step in
\* which the child accepts its task: before that the instance has no
\* current session.
C32_InitialSessionFirst ==
    /\ [](assigned # <<>> => assigned[1] = InitialSession)
    /\ [](currentSession # NoSession => assigned # <<>>)
    /\ [][(currentSession' # currentSession /\ currentSession' # NoSession)
             => childTask' = currentSession']_vars

\* the session has a fine-tune artifact
HasArtifact(s) == s.lora_dir \notin {"", LORA_DIR_NONE}

\* C33: the filter of an instance created for a session has the session's
\* model name, mode and type, and as lora_dir the session's lora_dir, or
\* LORA_DIR_NONE when that is empty; so the lora_dir of an instance's filter
\* is never empty, the filter of an instance created without fine-tune
\* matches no queued session that has an artifact, and a poll never hands
\* such a session to such an instance.
C33_FilterPinned ==
    /\ [](\A r \in Runners : \A i \in DOMAIN insts[r] :
             /\ insts[r][i].lora_dir # ""
             /\ insts[r][i].lora_dir = LORA_DIR_NONE =>
                  \A k \in DOMAIN squeue :
                      HasArtifact(squeue[k]) =>
                          ~matches(squeue[k], narrowFilter(insts[r][i]),
                                   queueClock))
    /\ [][\A r \in Runners :
            /\ (Returns(r) /\ Creates(r)) =>
                 LET inst == insts'[r][Len(insts'[r])]
                     s == pending[r].session
                 IN  /\ inst.model_name = s.model_name
                     /\ inst.mode = s.mode
                     /\ inst.type = s.type
                     /\ inst.lora_dir = IF s.lora_dir = ""
                                          THEN LORA_DIR_NONE
                                          ELSE s.lora_dir
            /\ (Returns(r) /\ pending[r].phase = "warm"
                  /\ insts[r][pending[r].inst].lora_dir = LORA_DIR_NONE) =>
                 ~HasArtifact(pending[r].session)]_vars

\* C33 witness: an instance without fine-tune that has served a session is
\* idle, and the poll of its runner has found a queued session of its model
\* and mode that has an artifact in the cold phase only: the session goes to
\* a new instance.
C33_Witness ==
    \E r \in Runners : \E i \in DOMAIN insts[r] :
        /\ insts[r][i].lora_dir = LORA_DIR_NONE
        /\ IsIdle(insts[r][i])
        /\ DeliveredTo(r) # {}
        /\ pending[r].phase = "cold"
        /\ HasArtifact(pending[r].session)
        /\ pending[r].session.model_name = insts[r][i].model_name
        /\ pending[r].session.mode = insts[r][i].mode

\* the handler of stream h returns from a failed upload in this step
UploadFails(h) == handlerPc[h] = "upload" /\ handlerPc'[h] = "idle"

\* C34: when the upload of the output files of a result fails, the handler
\* clears the current session, drops the response and forwards nothing; no
\* result of the child is ever forwarded without its upload having
\* succeeded.
C34_UploadFailureDrops ==
    /\ [](\A i \in Forwarded :
            (IsTerminal(forwarded[i]) /\ FromChild(forwarded[i]))
                => forwarded[i].uploaded)
    /\ [][\A h \in Streams :
            UploadFails(h) =>
                /\ currentSession' = NoSession
                /\ forwarded' = forwarded
                /\ handling'[h] = NoResponse]_vars

\* C34 witness: session 1 was current, the child has written its result,
\* both handlers are done and the instance has no current session, yet
\* nothing was forwarded: the upload of the result failed.
C34_Witness ==
    /\ assigned = <<1>>
    /\ emitted - childEmitted = 1
    /\ \A h \in Streams : pipe[h] = <<>> /\ handlerPc[h] = "idle"
    /\ currentSession = NoSession
    /\ forwarded = <<>>
    /\ ~panicked

\* assignSessionTask returns an error in this step: a session was passed to
\* it and the child got no task
AssignFails == Assigns /\ childTask' = NoSession

\* C35: when GetTask fails, assignSessionTask returns the error and no task,
\* and the current session and the last-activity timestamp of the instance
\* are what they were before the call.
C35_FailedAssignChangesNothing ==
    [][AssignFails =>
          /\ currentSession' = currentSession
          /\ lastActivityTimestamp' = lastActivityTimestamp]_vars

\* stopProcess is called in this step
StopCalled == stopResult = NotStopped /\ (stopResult' # NotStopped \/ panicked')

\* C36: stopProcess sends the kill signal only when a child process was
\* started; called on an instance whose process was never started, or whose
\* startProcess returned an error, it returns the "no process to stop"
\* error and sends no signal.
C36_StopNeedsProcess ==
    [][/\ (killed' /\ ~killed) => procState = "running"
       /\ (StopCalled /\ procState \in {"none", "failed"}) =>
             /\ stopResult' = noProcessErr
             /\ killed' = killed
             /\ ~panicked']_vars


\* the strictly positive requirements of the registry
PositiveRequirements ==
    {registry[m][mode] : m \in ModelNames, mode \in SessionModes} \ {0}

\* C37: what GetLowestMemoryRequirement returns, once every model was
\* visited, is the minimum of the strictly positive requirements over
\* all models and both modes, and 0 only when there is none
C37_LowestPositive ==
    toVisit = {} =>
        IF PositiveRequirements = {}
          THEN lowestMemoryRequirement = 0
          ELSE /\ lowestMemoryRequirement \in PositiveRequirements
               /\ \A req \in PositiveRequirements :
                      lowestMemoryRequirement <= req

\* the loop has ended over a registry where a model with only zero
\* requirements stands next to one with two different positive ones
C37_Witness ==
    /\ toVisit = {}
    /\ \E m \in ModelNames : \A mode \in SessionModes : registry[m][mode] = 0
    /\ \E m \in ModelNames :
          /\ registry[m][SessionModeFinetune] > registry[m][SessionModeInference]
          /\ registry[m][SessionModeInference] > 0
    /\ lowestMemoryRequirement > 0


\* C38: no two stored tools of the same owner have the same name
C38_ToolNamesUnique ==
    \A i \in ToolIDs : \A j \in ToolIDs :
        (/\ i # j
         /\ tools[i] # NoTool
         /\ tools[j] # NoTool
         /\ tools[i].owner = tools[j].owner)
            => tools[i].name # tools[j].name


\* the tool is stored and user is not its owner
NotOwner(user, id) == tools[id] # NoTool /\ tools[id].owner # user

\* a request of another user than the owner ends at once, with the given
\* status, and the store is as before
Refused(c, status) ==
    /\ tools' = tools
    /\ toolRequests'[c] = NoRequest
    /\ toolResponse'.status = status

\* a row is changed or removed only by the second part of a request of
\* its owner
ChangedByOwner ==
    \A id \in ToolIDs :
        (tools[id] # NoTool /\ tools'[id] # tools[id]) =>
            \E c \in Connections :
                /\ toolRequests[c].kind \in {"update", "delete"}
                /\ toolRequests[c].id = id
                /\ toolRequests[c].user = tools[id].owner
                /\ toolRequests'[c] = NoRequest

\* an update that succeeds on a stored row keeps its owner and owner type
UpdateKeepsOwner ==
    \A c \in Connections : \A saved \in BOOLEAN :
        (/\ updateToolStore(c, saved)
         /\ tools[toolRequests[c].id] # NoTool
         /\ toolResponse'.status = StatusOK)
            => /\ tools'[toolRequests[c].id].owner =
                     tools[toolRequests[c].id].owner
               /\ tools'[toolRequests[c].id].owner_type =
                     tools[toolRequests[c].id].owner_type

\* the statement with not-found as the answer to every updateTool of
\* another user than the owner
C39_NotFoundAlways ==
    [][/\ ChangedByOwner
       /\ UpdateKeepsOwner
       /\ \A user \in Users : \A id \in ToolIDs :
             NotOwner(user, id) =>
                 \A c \in Connections :
                     /\ deleteToolGet(c, user, id)
                            => Refused(c, StatusNotFound)
                     /\ \A body \in ToolBodies :
                            updateToolGet(c, user, id, body)
                               => Refused(c, StatusNotFound)]_vars

\* C39: a tool is changed or deleted only by its owner: deleteTool of
\* another user returns not-found, updateTool of another user returns
\* not-found for a valid body and bad-request for an invalid one, both
\* leave the store unchanged, and a successful updateTool keeps the
\* stored tool's owner and owner type whatever the body contains
C39_OwnerOnly ==
    [][/\ ChangedByOwner
       /\ UpdateKeepsOwner
       /\ \A user \in Users : \A id \in ToolIDs :
             NotOwner(user, id) =>
                 \A c \in Connections :
                     /\ deleteToolGet(c, user, id)
                            => Refused(c, StatusNotFound)
                     /\ \A body \in ToolBodies :
                            updateToolGet(c, user, id, body)
                               => Refused(c, IF validateTool(body)
                                               THEN StatusNotFound
                                               ELSE StatusBadRequest)]_vars

\* a request on the one tool stored, which user1 owns, has just been
\* answered not-found: it was an update or a deletion of another user
C39_Witness ==
    /\ toolResponse.status = StatusNotFound
    /\ toolResponse.id \in ToolIDs
    /\ tools[toolResponse.id] # NoTool
    /\ tools[toolResponse.id].owner = "user1"
    /\ created = 1
    /\ tools[1].name = "tool2"
    /\ \A c \in Connections : toolRequests[c] = NoRequest

=============================================================================
